---- MODULE Spec2Model ----
(***************************************************************************)
(* Model of the magda-auth-okta authentication plugin: the router built by *)
(* createAuthPluginRouter (login in three legs, logout in two), the        *)
(* browser that follows its redirects, the identity provider and the       *)
(* gateway that mounts the plugin.                                         *)
(*                                                                         *)
(* Two revisions of createAuthPluginRouter are part of the sources: the    *)
(* one with the logout endpoints ("current") and the one without them      *)
(* ("legacy").  The revision in use is fixed at startup (options.build).   *)
(*                                                                         *)
(* URLs are kept in parsed form: a host ("" for a relative URL), the path  *)
(* segments and the value of the query parameter `redirect` (a sequence    *)
(* of at most one URL; encoding a URL into a query parameter nests it,     *)
(* decoding takes it out again).                                           *)
(*                                                                         *)
(* A handler that awaits returns to the event loop: it is one step up to   *)
(* each await and one step from it.  A request arrives at any time, also   *)
(* while the handlers of others are in an await, and so do the steps of    *)
(* the browser and of the provider; the handlers in an await are a bag.    *)
(* `last` and `landed` describe the step just taken: the request it has    *)
(* answered and the page the browser has landed on.                        *)
(***************************************************************************)
EXTENDS Integers, Sequences, FiniteSets, Bags

VARIABLES
    options,     \* AuthPluginRouterOptions, fixed at process start
    phase,       \* "start" | "serving" | "failed": router construction
    strategies,  \* names registered with passport.use
    discovery,   \* the calls of Issuer.discover so far, with their timeout
    client,      \* the provider client built at startup, <<>> before
    session,     \* the session of the browser, <<>> when there is none
    loginToken,  \* the token set of the login the session comes from, 0 if none
    issued,      \* number of token sets the provider has issued
    inflight,    \* the redirect the browser has been sent and not yet followed
    flow,        \* the request that started the flow of the redirect in `inflight`
    landed,      \* the page outside the plugin the browser has just landed on, or <<>>
    requests,    \* the requests whose handlers are in an await, and those answered
    last         \* the request the step just taken has answered, NoLast if none

vars == <<options, phase, strategies, discovery, client, session, loginToken, issued,
          inflight, flow, landed, requests, last>>

-----------------------------------------------------------------------------
(* Bounds *)

\* the number of token sets the provider issues
MaxLogins == 2

\* the number of requests handled from the arrival of one to the moment no
\* handler is in an await
NumRequests == 2

-----------------------------------------------------------------------------
(* Program constants *)

OKTA_DEFAULT_TIMEOUT == 10000

OKTA_DEFAULT_MAX_CLOCK_SKEW == 120

STRATEGY_NAME == "okta-oidc"

\* a scope set is the sequence of the names of its space-delimited string
DEFAULT_SCOPE == <<"openid", "profile", "email">>

\* the scope array of GET / in the legacy revision
LEGACY_INITIATE_SCOPE == <<"profile", "email">>

\* the name the legacy revision authenticates GET /return with
LEGACY_RETURN_STRATEGY == "arcgis"

ExternalHost == "example.org"

-----------------------------------------------------------------------------
(* URLs *)

Url(h, p, r) == [host |-> h, path |-> p, redirect |-> r]

EmptyUrl == Url("", <<>>, <<>>)

\* the value of options.externalUrl
ExternalUrl == Url(ExternalHost, <<>>, <<>>)

\* the value of options.authPluginRedirectUrl, the default destination
DefaultRedirectUrl == Url("", <<"sign-in-redirect">>, <<>>)

\* the value of baseUrl when the argument is not passed
NoBase == EmptyUrl

\* @magda/authentication-plugin-sdk getAbsoluteUrl(url, baseUrl, optionalQueries):
\* a URL with a host is returned as it is; otherwise the path is appended to
\* the base URL's, and the query is optionalQueries overridden by url's own
getAbsoluteUrl(url, baseUrl, optionalQueries) ==
    IF url.host # ""
    THEN url
    ELSE Url(baseUrl.host,
             baseUrl.path \o url.path,
             IF url.redirect # <<>> THEN url.redirect ELSE optionalQueries)

\* the gateway mounts the plugin at /auth/login/plugin/<key>
MountPath(key) == <<"auth", "login", "plugin", key>>

\* the endpoint of the plugin a URL addresses, "none" when the gateway does
\* not hand the request to the plugin
Route(url, key) ==
    IF url.host # ExternalHost THEN "none"
    ELSE IF url.path = MountPath(key) THEN "/"
    ELSE IF url.path = MountPath(key) \o <<"return">> THEN "/return"
    ELSE IF url.path = MountPath(key) \o <<"logout">> THEN "/logout"
    ELSE IF url.path = MountPath(key) \o <<"logout", "return">> THEN "/logout/return"
    ELSE "none"

-----------------------------------------------------------------------------
(* Requests *)

\* req.query.redirect: absent, an array (the parameter given twice) or a
\* string; the empty string is the string whose URL is EmptyUrl
Param(k, v) == [kind |-> k, val |-> v]

AbsentParam == Param("absent", EmptyUrl)

StringParam(u) == Param("string", u)

RedirectUrls ==
    { Url("", <<"dashboard">>, <<>>),
      Url("other.example", <<"app">>, <<>>) }

\* the `redirect` parameter of a GET / request
RedirectParams ==
    {AbsentParam, Param("array", EmptyUrl), StringParam(EmptyUrl)}
        \cup {StringParam(u) : u \in RedirectUrls}

\* the `redirect` parameter of a GET /logout or GET /logout/return request
LogoutRedirectParams ==
    {AbsentParam, StringParam(Url("", <<"dashboard">>, <<>>))}

\* the values a `state` query parameter is given in the model
States ==
    {EmptyUrl}
        \cup {getAbsoluteUrl(u, ExternalUrl, <<>>) :
                 u \in RedirectUrls \cup {DefaultRedirectUrl}}

\* the provider's claims about the user
Profiles == [email : {"absent", "empty", "a@b.com"}, sub : {"u1"}]

-----------------------------------------------------------------------------
(* Messages a browser carries from one party to the next *)

Msg(t, u, st, c, h) == [to |-> t, url |-> u, state |-> st, code |-> c, hint |-> h]

NoMsg == Msg("none", EmptyUrl, EmptyUrl, 0, 0)

\* a plain redirect to a URL
UrlMsg(u) == Msg("url", u, EmptyUrl, 0, 0)

\* the request that started a flow and the state parameter it embedded
Flow(k, rp, st) == [kind |-> k, redirect |-> rp, state |-> st]

NoFlow == Flow("none", AbsentParam, EmptyUrl)

-----------------------------------------------------------------------------
(* Responses and the record of the last request *)

Res(k, u, r, st, h) == [kind |-> k, url |-> u, result |-> r, state |-> st, hint |-> h]

NoRes == Res("none", EmptyUrl, "none", EmptyUrl, 0)

NoLast ==
    [endpoint |-> "none", follow |-> FALSE,
     redirect |-> AbsentParam, state |-> EmptyUrl, echoed |-> FALSE,
     sessionBefore |-> <<>>, strategy |-> "", exchange |-> "none",
     tokenSet |-> 0, email |-> "none", resolver |-> "none",
     establish |-> FALSE, destroy |-> 0, trace |-> <<>>,
     scope |-> <<>>, redirectUri |-> <<>>, clockTolerance |-> <<>>,
     login |-> 0, touched |-> FALSE, dest |-> EmptyUrl, res |-> NoRes]

-----------------------------------------------------------------------------
(* createAuthPluginRouter.ts: pure parts *)

\* the timeout the http options of a request arrive with: none, or one
\* that the caller of the hook has already set
RequestTimeouts == {<<>>, <<2500>>}

\* Issuer[custom.http_options]: the timeout of a discovery request
\* (`options?.timeout || OKTA_DEFAULT_TIMEOUT`, options being the router's)
issuerHttpOptions(opts) ==
    [timeout |-> IF opts.timeout # <<>> /\ opts.timeout[1] # 0
                 THEN opts.timeout[1]
                 ELSE OKTA_DEFAULT_TIMEOUT]

\* client[custom.http_options]: the timeout of a request of the client.  The
\* parameter of the hook is named `options` too and hides the router's, so
\* `options.timeout || OKTA_DEFAULT_TIMEOUT` reads the request's own timeout
clientHttpOptions(httpOptions) ==
    [timeout |-> IF httpOptions.timeout # <<>> /\ httpOptions.timeout[1] # 0
                 THEN httpOptions.timeout[1]
                 ELSE OKTA_DEFAULT_TIMEOUT]

\* variant: `options.maxClockSkew || OKTA_DEFAULT_MAX_CLOCK_SKEW`
clockTolerance_DefaultOnZero(opts) ==
    IF opts.maxClockSkew # <<>> /\ opts.maxClockSkew[1] # 0
    THEN opts.maxClockSkew[1]
    ELSE OKTA_DEFAULT_MAX_CLOCK_SKEW

\* client[custom.clock_tolerance]
clockTolerance(opts) ==
    IF opts.maxClockSkew = <<>>
    THEN OKTA_DEFAULT_MAX_CLOCK_SKEW
    ELSE opts.maxClockSkew[1]

\* createOpenIdClient: the client bound to the login return URI, with the
\* timeout it gives each request and its clock tolerance
createOpenIdClient(opts) ==
    LET loginBaseUrl ==
            getAbsoluteUrl(Url("", <<"auth", "login", "plugin">>, <<>>),
                           opts.externalUrl, <<>>)
    IN  [client_id |-> opts.clientId,
         redirect_uris |->
            getAbsoluteUrl(Url("", <<"okta", "return">>, <<>>), loginBaseUrl, <<>>),
         http_options |->
            [t \in RequestTimeouts |-> clientHttpOptions([timeout |-> t])],
         clock_tolerance |-> clockTolerance(opts)]

\* variant: the test `&& req.query.redirect` is left out, so that the empty
\* string is resolved like any other value
determineRedirectUrl_EmptyStringAccepted(req, authPluginRedirectUrl, externalUrl) ==
    IF req.redirect.kind = "string"
    THEN getAbsoluteUrl(req.redirect.val, externalUrl, <<>>)
    ELSE getAbsoluteUrl(authPluginRedirectUrl, externalUrl, <<>>)

\* variant: the `redirect` parameter of the request is not looked at
determineRedirectUrl_IgnoresParam(req, authPluginRedirectUrl, externalUrl) ==
    getAbsoluteUrl(authPluginRedirectUrl, externalUrl, <<>>)

\* determineRedirectUrl(req, authPluginRedirectUrl, externalUrl); externalUrl
\* is NoBase when the caller passes two arguments
determineRedirectUrl(req, authPluginRedirectUrl, externalUrl) ==
    LET resultRedirectionUrl ==
            getAbsoluteUrl(authPluginRedirectUrl, externalUrl, <<>>)
    IN  IF req.redirect.kind = "string" /\ req.redirect.val # EmptyUrl
        THEN getAbsoluteUrl(req.redirect.val, externalUrl, <<>>)
        ELSE resultRedirectionUrl

\* variant: only an absent claim counts as missing
EmailMissing_AbsentOnly(profile) == profile.email = "absent"

\* `!profile?.email`: the claim is absent or the empty string
EmailMissing(profile) == profile.email \in {"absent", "empty"}

\* variant: the logout URL is set whatever explicitLogout says
authPluginData_AlwaysLogoutUrl(authPluginConfig, tokenSet) ==
    [key |-> authPluginConfig.key,
     tokenSet |-> tokenSet,
     logoutUrl |->
        <<Url("", <<"auth", "plugin", authPluginConfig.key, "logout">>, <<>>)>>]

\* the provider marker of the session record
authPluginData(authPluginConfig, tokenSet) ==
    [key |-> authPluginConfig.key,
     tokenSet |-> tokenSet,
     logoutUrl |->
        IF authPluginConfig.explicitLogout
        THEN <<Url("", <<"auth", "plugin", authPluginConfig.key, "logout">>, <<>>)>>
        ELSE <<>>]

\* variant: the catch block logs the user in without a resolved user token
verify_LoginOnResolverError(authPluginConfig, tokenSet, profile, resolverOk) ==
    IF EmailMissing(profile)
    THEN [err |-> TRUE, user |-> <<>>, resolver |-> "none"]
    ELSE [err |-> FALSE,
          user |-> <<[sub |-> profile.sub,
                      authPlugin |-> <<authPluginData(authPluginConfig, tokenSet)>>]>>,
          resolver |-> IF resolverOk THEN "ok" ELSE "fail"]

\* the verify callback of the strategy (current revision): the outcome of
\* done(err, user) and whether createOrGetUserToken was called
verify(authPluginConfig, tokenSet, profile, resolverOk) ==
    IF EmailMissing(profile)
    THEN [err |-> TRUE, user |-> <<>>, resolver |-> "none"]
    ELSE IF ~resolverOk
    THEN [err |-> TRUE, user |-> <<>>, resolver |-> "fail"]
    ELSE [err |-> FALSE,
          user |-> <<[sub |-> profile.sub,
                      authPlugin |-> <<authPluginData(authPluginConfig, tokenSet)>>]>>,
          resolver |-> "ok"]

\* the verify callback of the legacy revision: no email check, no resolver,
\* the user is {userinfo, tokens} without a provider marker
verifyLegacy(tokenSet, profile) ==
    [err |-> FALSE,
     user |-> IF tokenSet # 0
              THEN <<[sub |-> profile.sub, authPlugin |-> <<>>]>>
              ELSE <<>>,
     resolver |-> "none"]

\* the strategy name each endpoint hands to passport.authenticate
AuthenticateName(build, endpoint) ==
    IF build = "legacy" /\ endpoint = "/return"
    THEN LEGACY_RETURN_STRATEGY
    ELSE STRATEGY_NAME

\* `(req?.user as any)?.authPlugin?.tokenSet`, 0 when undefined
TokenSetOf(user) ==
    IF user = <<>> THEN 0
    ELSE IF user[1].authPlugin = <<>> THEN 0
    ELSE user[1].authPlugin[1].tokenSet

\* redirectOnSuccess / redirectOnError: a redirect to the URL of `state`
\* marked with the result
redirectOnSuccess(toURL) == Res("redirect", toURL, "success", EmptyUrl, 0)

redirectOnError(toURL) == Res("redirect", toURL, "failure", EmptyUrl, 0)

-----------------------------------------------------------------------------
(* createAuthPluginRouter.ts: the request handlers, as functions of the    *)
(* request, the session on entry and the outcomes of the calls they make   *)

Fault == Res("fault", EmptyUrl, "none", EmptyUrl, 0)

\* `const scope = options.scope ? options.scope : DEFAULT_SCOPE`
ConfiguredScope(opts) ==
    IF opts.scope # <<>> /\ opts.scope[1] # <<>> THEN opts.scope[1] ELSE DEFAULT_SCOPE

\* the params the strategy is constructed with; the scope is <<>> when the
\* legacy revision is given an undefined options.scope
StrategyParams(opts) ==
    [scope |-> IF opts.build = "legacy" THEN opts.scope ELSE <<ConfiguredScope(opts)>>]

\* the scope GET / hands to passport.authenticate, which goes before the
\* strategy's own params in the authorization request
InitiateScope(opts) ==
    IF opts.build = "legacy" THEN LEGACY_INITIATE_SCOPE ELSE ConfiguredScope(opts)

\* GET / : the state parameter and the redirect to the provider
InitiateHandler(opts, regs, cl, req) ==
    LET name == AuthenticateName(opts.build, "/")
        state ==
            IF opts.build = "legacy"
            THEN IF req.redirect.kind = "string" /\ req.redirect.val # EmptyUrl
                 THEN getAbsoluteUrl(req.redirect.val, opts.externalUrl, <<>>)
                 ELSE getAbsoluteUrl(opts.authPluginRedirectUrl, opts.externalUrl, <<>>)
            ELSE determineRedirectUrl(req, opts.authPluginRedirectUrl, opts.externalUrl)
    IN  [strategy |-> name,
         scope |-> IF name \in regs THEN <<InitiateScope(opts)>> ELSE <<>>,
         redirectUri |-> IF name \in regs THEN <<cl.redirect_uris>> ELSE <<>>,
         dest |-> state,
         res |-> IF name \in regs
                 THEN Res("authorization", cl.redirect_uris, "none", state, 0)
                 ELSE Fault]

\* variant: a login over an existing session keeps that session
CompleteHandler_KeepsExistingSession(opts, regs, req, user, exch, profile, resolverOk) ==
    LET name == AuthenticateName(opts.build, "/return")
        known == name \in regs
        exchanged == known /\ req.code # 0 /\ exch
        tokenSet == IF exchanged THEN req.code ELSE 0
        v == IF ~exchanged
             THEN [err |-> TRUE, user |-> <<>>, resolver |-> "none"]
             ELSE IF opts.build = "legacy"
             THEN verifyLegacy(tokenSet, profile)
             ELSE verify(opts.authPluginConfig, tokenSet, profile, resolverOk)
        ok == exchanged /\ ~v.err /\ v.user # <<>>
    IN  [strategy |-> name,
         exchange |-> IF ~known THEN "none" ELSE IF exchanged THEN "ok" ELSE "fail",
         tokenSet |-> tokenSet,
         email |-> IF exchanged THEN profile.email ELSE "none",
         resolver |-> v.resolver,
         establish |-> ok,
         session |-> IF ok /\ user = <<>> THEN v.user ELSE user,
         dest |-> req.state,
         res |-> IF ok THEN redirectOnSuccess(req.state)
                 ELSE redirectOnError(req.state)]

\* GET /return : passport.authenticate with failWithError, then the success
\* handler or the error handler of the route
CompleteHandler(opts, regs, req, user, exch, profile, resolverOk) ==
    LET name == AuthenticateName(opts.build, "/return")
        known == name \in regs
        exchanged == known /\ req.code # 0 /\ exch
        tokenSet == IF exchanged THEN req.code ELSE 0
        v == IF ~exchanged
             THEN [err |-> TRUE, user |-> <<>>, resolver |-> "none"]
             ELSE IF opts.build = "legacy"
             THEN verifyLegacy(tokenSet, profile)
             ELSE verify(opts.authPluginConfig, tokenSet, profile, resolverOk)
        ok == exchanged /\ ~v.err /\ v.user # <<>>
    IN  [strategy |-> name,
         exchange |-> IF ~known THEN "none" ELSE IF exchanged THEN "ok" ELSE "fail",
         tokenSet |-> tokenSet,
         email |-> IF exchanged THEN profile.email ELSE "none",
         resolver |-> v.resolver,
         establish |-> ok,
         session |-> IF ok THEN v.user ELSE user,
         dest |-> req.state,
         res |-> IF ok THEN redirectOnSuccess(req.state)
                 ELSE redirectOnError(req.state)]

\* variant: the session is destroyed in the direct branch only, the provider
\* branch leaves it to GET /logout/return
LogoutHandler_DestroyInDirectBranchOnly(opts, req, user) ==
    LET tokenSet == TokenSetOf(user)
        direct == determineRedirectUrl(req, opts.authPluginRedirectUrl, opts.externalUrl)
        redirectUrl == determineRedirectUrl(req, opts.authPluginRedirectUrl, NoBase)
        post_logout_redirect_uri ==
            getAbsoluteUrl(
                Url("", <<"auth", "plugin", opts.authPluginConfig.key, "logout", "return">>, <<>>),
                opts.externalUrl, <<redirectUrl>>)
    IN  [tokenSet |-> tokenSet,
         session |-> IF tokenSet = 0 THEN <<>> ELSE user,
         destroy |-> IF tokenSet = 0 THEN 1 ELSE 0,
         trace |-> IF tokenSet = 0 THEN <<"read", "destroy", "redirect">>
                   ELSE <<"read", "redirect">>,
         dest |-> IF tokenSet = 0 THEN direct ELSE redirectUrl,
         res |-> IF tokenSet = 0
                 THEN Res("redirect", direct, "none", EmptyUrl, 0)
                 ELSE Res("end_session", post_logout_redirect_uri, "none", EmptyUrl, tokenSet)]

\* variant: destroying a session that is not there is an error
LogoutHandler_FailsWithoutSession(opts, req, user) ==
    LET tokenSet == TokenSetOf(user)
        direct == determineRedirectUrl(req, opts.authPluginRedirectUrl, opts.externalUrl)
        redirectUrl == determineRedirectUrl(req, opts.authPluginRedirectUrl, NoBase)
        post_logout_redirect_uri ==
            getAbsoluteUrl(
                Url("", <<"auth", "plugin", opts.authPluginConfig.key, "logout", "return">>, <<>>),
                opts.externalUrl, <<redirectUrl>>)
    IN  [tokenSet |-> tokenSet,
         session |-> <<>>,
         destroy |-> 1,
         trace |-> IF user = <<>> THEN <<"read", "destroy">>
                   ELSE <<"read", "destroy", "redirect">>,
         dest |-> IF tokenSet = 0 THEN direct ELSE redirectUrl,
         res |-> IF user = <<>>
                 THEN Res("fault", EmptyUrl, "none", EmptyUrl, 0)
                 ELSE IF tokenSet = 0
                 THEN Res("redirect", direct, "none", EmptyUrl, 0)
                 ELSE Res("end_session", post_logout_redirect_uri, "none", EmptyUrl, tokenSet)]

\* variant: the branch is chosen on the presence of a session, not of its
\* token set
LogoutHandler_BranchOnSession(opts, req, user) ==
    LET tokenSet == TokenSetOf(user)
        direct == determineRedirectUrl(req, opts.authPluginRedirectUrl, opts.externalUrl)
        redirectUrl == determineRedirectUrl(req, opts.authPluginRedirectUrl, NoBase)
        post_logout_redirect_uri ==
            getAbsoluteUrl(
                Url("", <<"auth", "plugin", opts.authPluginConfig.key, "logout", "return">>, <<>>),
                opts.externalUrl, <<redirectUrl>>)
    IN  [tokenSet |-> tokenSet,
         session |-> <<>>,
         destroy |-> 1,
         trace |-> <<"read", "destroy", "redirect">>,
         dest |-> IF user = <<>> THEN direct ELSE redirectUrl,
         res |-> IF user = <<>>
                 THEN Res("redirect", direct, "none", EmptyUrl, 0)
                 ELSE Res("end_session", post_logout_redirect_uri, "none", EmptyUrl, tokenSet)]

\* variant: the token set is read after the session has been destroyed
LogoutHandler_ReadAfterDestroy(opts, req, user) ==
    LET tokenSet == TokenSetOf(<<>>)
        direct == determineRedirectUrl(req, opts.authPluginRedirectUrl, opts.externalUrl)
        redirectUrl == determineRedirectUrl(req, opts.authPluginRedirectUrl, NoBase)
        post_logout_redirect_uri ==
            getAbsoluteUrl(
                Url("", <<"auth", "plugin", opts.authPluginConfig.key, "logout", "return">>, <<>>),
                opts.externalUrl, <<redirectUrl>>)
    IN  [tokenSet |-> tokenSet,
         session |-> <<>>,
         destroy |-> 1,
         trace |-> <<"destroy", "read", "redirect">>,
         dest |-> IF tokenSet = 0 THEN direct ELSE redirectUrl,
         res |-> IF tokenSet = 0
                 THEN Res("redirect", direct, "none", EmptyUrl, 0)
                 ELSE Res("end_session", post_logout_redirect_uri, "none", EmptyUrl, tokenSet)]

\* GET /logout : read the token set, destroy the session, redirect
LogoutHandler(opts, req, user) ==
    LET tokenSet == TokenSetOf(user)
        direct == determineRedirectUrl(req, opts.authPluginRedirectUrl, opts.externalUrl)
        redirectUrl == determineRedirectUrl(req, opts.authPluginRedirectUrl, NoBase)
        post_logout_redirect_uri ==
            getAbsoluteUrl(
                Url("", <<"auth", "plugin", opts.authPluginConfig.key, "logout", "return">>, <<>>),
                opts.externalUrl, <<redirectUrl>>)
    IN  [tokenSet |-> tokenSet,
         session |-> <<>>,
         destroy |-> 1,
         trace |-> <<"read", "destroy", "redirect">>,
         dest |-> IF tokenSet = 0 THEN direct ELSE redirectUrl,
         res |-> IF tokenSet = 0
                 THEN Res("redirect", direct, "none", EmptyUrl, 0)
                 ELSE Res("end_session", post_logout_redirect_uri, "none", EmptyUrl, tokenSet)]

\* variant: Logout-return redirects without looking at the session
LogoutReturnHandler_RedirectOnly(opts, req, user) ==
    LET dest == determineRedirectUrl(req, opts.authPluginRedirectUrl, opts.externalUrl)
    IN  [session |-> user,
         destroy |-> 0,
         trace |-> <<"read", "redirect">>,
         dest |-> dest,
         res |-> Res("redirect", dest, "none", EmptyUrl, 0)]

\* GET /logout/return : destroy a session that is still there, redirect
LogoutReturnHandler(opts, req, user) ==
    LET dest == determineRedirectUrl(req, opts.authPluginRedirectUrl, opts.externalUrl)
    IN  [session |-> IF user # <<>> THEN <<>> ELSE user,
         destroy |-> IF user # <<>> THEN 1 ELSE 0,
         trace |-> IF user # <<>> THEN <<"read", "destroy", "redirect">>
                   ELSE <<"read", "redirect">>,
         dest |-> dest,
         res |-> Res("redirect", dest, "none", EmptyUrl, 0)]

\* what the browser carries away from a response
MsgOf(res) ==
    IF res.kind = "authorization" THEN Msg("authorization", res.url, res.state, 0, 0)
    ELSE IF res.kind = "end_session" THEN Msg("end_session", res.url, EmptyUrl, 0, res.hint)
    ELSE IF res.kind = "redirect" THEN UrlMsg(res.url)
    ELSE NoMsg

-----------------------------------------------------------------------------
(* The state machine *)

\* the optional settings of the configuration, <<>> when not given: all
\* absent, and all given (a clock skew of 0)
ClientSettings ==
    { [timeout |-> <<>>, maxClockSkew |-> <<>>, scope |-> <<>>],
      [timeout |-> <<5000>>, maxClockSkew |-> <<0>>, scope |-> << <<"openid">> >>] }

\* the values of options.authPluginConfig
AuthPluginConfigs ==
    { [key |-> "okta", explicitLogout |-> TRUE],
      [key |-> "okta", explicitLogout |-> FALSE],
      [key |-> "sso", explicitLogout |-> TRUE] }

\* the configurations; the optional settings are given for one value of
\* authPluginConfig
Options ==
    { o \in
        { [build |-> b,
           authPluginConfig |-> a,
           clientId |-> id,
           clientSecret |-> secret,
           issuer |-> iss,
           externalUrl |-> ExternalUrl,
           authPluginRedirectUrl |-> DefaultRedirectUrl,
           timeout |-> c.timeout,
           maxClockSkew |-> c.maxClockSkew,
           scope |-> c.scope] :
            b \in {"legacy", "current"},
            a \in AuthPluginConfigs,
            id \in {"", "client-id"},
            secret \in {"", "client-secret"},
            iss \in {"", "https://dev-1.okta.com/oauth2/default"},
            c \in ClientSettings } :
        o.timeout # <<>> => o.authPluginConfig = [key |-> "okta", explicitLogout |-> TRUE] }

\* a request whose handler has returned to the event loop at an await: what
\* it came with (`redirect`, or `state` and `code`; whether the browser
\* followed a redirect to it and echoed the state, and the flow that
\* redirect belongs to), req.user as it got it and the login that
\* established it, the await it is in, what it has done so far, and whether
\* another request has changed the session since it read or destroyed it
Awaiting(e, rp, st, c, follow, echoed, f, u, login, pc) ==
    [endpoint |-> e, redirect |-> rp, state |-> st, code |-> c, follow |-> follow,
     echoed |-> echoed, flow |-> f, user |-> u, login |-> login, pc |-> pc,
     destroys |-> 0, rejected |-> FALSE, touched |-> FALSE, profile |-> <<>>]

\* a request that was answered while the handler of another is in an await
Done == Awaiting("none", AbsentParam, EmptyUrl, 0, FALSE, FALSE, NoFlow, <<>>, 0, "done")

\* the requests whose handlers are in an await
UnderWay == {r \in BagToSet(requests) : r.pc # "done"}

\* a request can arrive at any time; at most NumRequests requests are
\* handled from the arrival of one to the moment no handler is in an await
Arrives == BagCardinality(requests) < NumRequests

\* the requests but request r
Others(rs, r) == rs (-) SetToBag({r})

\* a request is answered, the others being rs
Answered(rs) ==
    IF \A r \in BagToSet(rs) : r.pc = "done"
    THEN EmptyBag
    ELSE rs (+) SetToBag({Done})

\* the session has changed: the handlers in an await have read, or
\* destroyed, another one
Touched(rs, changed) ==
    IF changed
    THEN BagOfAll(LAMBDA r : IF r.pc = "done" THEN r ELSE [r EXCEPT !.touched = TRUE], rs)
    ELSE rs

\* the profile handed to a handler whose exchange gives none
NoProfile == [email |-> "absent", sub |-> "u1"]

\* what the handler of a request does, given the req.user it got
HandlerOf(r) ==
    IF r.endpoint = "/logout"
    THEN LogoutHandler(options, [redirect |-> r.redirect], r.user)
    ELSE LogoutReturnHandler(options, [redirect |-> r.redirect], r.user)

\* variant: destroying a session another request has destroyed rejects
destroyMagdaSession_RejectsWhenGone(store) ==
    [session |-> <<>>, ok |-> store # <<>>]

\* destroyMagdaSession: "safe to call even when session doesn't exist"
destroyMagdaSession(store) ==
    [session |-> <<>>, ok |-> TRUE]

Init ==
    /\ options \in Options
    /\ phase = "start"
    /\ strategies = {}
    /\ discovery = <<>>
    /\ client = <<>>
    /\ session = <<>>
    /\ loginToken = 0
    /\ issued = 0
    /\ inflight = NoMsg
    /\ flow = NoFlow
    /\ landed = <<>>
    /\ requests = EmptyBag
    /\ last = NoLast

\* variant: the client secret is not checked
ConfigurationError_SecretUnchecked(opts) ==
    opts.clientId = "" \/ opts.issuer = ""

\* the three checks createAuthPluginRouter starts with: each throws
ConfigurationError(opts) ==
    opts.clientId = "" \/ opts.clientSecret = "" \/ opts.issuer = ""

\* variant: the provider is not discovered when the router is built
createAuthPluginRouter_NoDiscovery ==
    /\ phase = "start"
    /\ discovery = <<>>
    /\ IF ConfigurationError(options)
       THEN /\ phase' = "failed"
            /\ UNCHANGED <<strategies, client>>
       ELSE /\ client' = <<createOpenIdClient(options)>>
            /\ strategies' = strategies \cup {STRATEGY_NAME}
            /\ phase' = "serving"
    /\ UNCHANGED <<options, discovery, session, loginToken, issued, inflight, flow,
                   landed, requests, last>>

\* createAuthPluginRouter up to `await createOpenIdClient(options)`: the
\* configuration checks, then Issuer.discover is called and awaited
createAuthPluginRouter ==
    /\ phase = "start"
    /\ discovery = <<>>
    /\ IF ConfigurationError(options)
       THEN /\ phase' = "failed"
            /\ UNCHANGED discovery
       ELSE /\ discovery' = Append(discovery, issuerHttpOptions(options))
            /\ UNCHANGED phase
    /\ UNCHANGED <<options, strategies, client, session, loginToken, issued,
                   inflight, flow, landed, requests, last>>

\* Issuer.discover settles: createAuthPluginRouter goes on with the client,
\* passport.use and the routes, or is rejected
Discovered(discovered) ==
    /\ phase = "start"
    /\ discovery # <<>>
    /\ IF discovered
       THEN /\ client' = <<createOpenIdClient(options)>>
            /\ strategies' = strategies \cup {STRATEGY_NAME}
            /\ phase' = "serving"
       ELSE /\ phase' = "failed"
            /\ UNCHANGED <<strategies, client>>
    /\ UNCHANGED <<options, discovery, session, loginToken, issued, inflight, flow,
                   landed, requests, last>>

\* GET / : the handler does not await, the request is answered at once
Initiate(rp) ==
    /\ phase = "serving"
    /\ Arrives
    /\ LET req == [redirect |-> rp]
           h == InitiateHandler(options, strategies, client[1], req)
       IN  /\ inflight' = MsgOf(h.res)
           /\ last' = [NoLast EXCEPT !.endpoint = "/", !.redirect = rp,
                                      !.sessionBefore = session,
                                      !.login = loginToken,
                                      !.strategy = h.strategy,
                                      !.scope = h.scope,
                                      !.redirectUri = h.redirectUri,
                                      !.dest = h.dest, !.res = h.res]
           /\ flow' = Flow("login", rp, h.dest)
    /\ landed' = <<>>
    /\ requests' = Answered(requests)
    /\ UNCHANGED <<options, phase, strategies, discovery, client, session,
                   loginToken, issued>>

\* the provider authenticates the user and sends the browser to the client's
\* redirect URI with a code and the state it was given
ProviderAuthorize ==
    /\ inflight.to = "authorization"
    /\ issued < MaxLogins
    /\ issued' = issued + 1
    /\ inflight' = Msg("url", inflight.url, inflight.state, issued + 1, 0)
    /\ landed' = <<>>
    /\ last' = NoLast
    /\ UNCHANGED <<options, phase, strategies, discovery, client, session,
                   loginToken, flow, requests>>

\* GET /return (request r, the others being rs) is answered: the session is
\* established or not and the browser is redirected
CompleteAnswered(rs, r, h, attempted) ==
    /\ session' = h.session
    /\ loginToken' = IF h.establish THEN h.tokenSet ELSE loginToken
    /\ inflight' = MsgOf(h.res)
    /\ flow' = r.flow
    /\ landed' = <<>>
    /\ last' = [NoLast EXCEPT !.endpoint = "/return",
                               !.follow = r.follow, !.state = r.state,
                               !.echoed = r.echoed,
                               !.sessionBefore = r.user,
                               !.login = r.login,
                               !.touched = r.touched,
                               !.strategy = h.strategy,
                               !.exchange = h.exchange,
                               !.tokenSet = h.tokenSet,
                               !.email = h.email,
                               !.resolver = h.resolver,
                               !.establish = h.establish,
                               !.redirectUri =
                                   IF attempted
                                   THEN <<client[1].redirect_uris>>
                                   ELSE <<>>,
                               !.clockTolerance =
                                   IF attempted
                                   THEN <<client[1].clock_tolerance>>
                                   ELSE <<>>,
                               !.dest = h.dest, !.res = h.res]
    /\ requests' = Answered(Touched(rs, h.session # session))

\* GET /return, either the browser following the provider's redirect (the
\* state possibly altered on the way) or a request made up by the user.
\* passport.authenticate fails at once for a name that is not registered;
\* a request without a code fails at once; otherwise the handler awaits the
\* code exchange
Complete(st, follow) ==
    /\ phase = "serving"
    /\ Arrives
    /\ follow => /\ inflight.to = "url"
                 /\ inflight.code # 0
                 /\ Route(inflight.url, options.authPluginConfig.key) = "/return"
    /\ LET req == [state |-> st, code |-> IF follow THEN inflight.code ELSE 0]
           echoed == follow /\ st = inflight.state
           known == AuthenticateName(options.build, "/return") \in strategies
           r == Awaiting("/return", AbsentParam, st, req.code, follow, echoed,
                         IF echoed THEN flow ELSE NoFlow,
                         session, loginToken, "exchange")
       IN  IF known /\ req.code # 0
           THEN /\ requests' = requests (+) SetToBag({r})
                /\ inflight' = NoMsg
                /\ flow' = NoFlow
                /\ landed' = <<>>
                /\ last' = NoLast
                /\ UNCHANGED <<session, loginToken>>
           ELSE CompleteAnswered(requests, r,
                    CompleteHandler(options, strategies, req, session,
                                    FALSE, NoProfile, FALSE),
                    FALSE)
    /\ UNCHANGED <<options, phase, strategies, discovery, client, issued>>

\* the code exchange of request r settles: it failed, or the verify callback
\* runs with the tokens and the profile and, unless it ends before, awaits
\* createOrGetUserToken
Exchanged(r, exch, profile) ==
    /\ BagIn(r, requests)
    /\ r.pc = "exchange"
    /\ LET req == [state |-> r.state, code |-> r.code]
           h == CompleteHandler(options, strategies, req, session, exch, profile, TRUE)
       IN  IF exch /\ h.resolver # "none"
           THEN /\ requests' = Others(requests, r)
                                   (+) SetToBag({[r EXCEPT !.pc = "resolve",
                                                           !.profile = <<profile>>]})
                /\ landed' = <<>>
                /\ last' = NoLast
                /\ UNCHANGED <<session, loginToken, inflight, flow>>
           ELSE CompleteAnswered(Others(requests, r), r, h, TRUE)
    /\ UNCHANGED <<options, phase, strategies, discovery, client, issued>>

\* createOrGetUserToken of request r settles: done(null, user) and the
\* success handler, or done(error) and the error handler
Resolved(r, resolverOk) ==
    /\ BagIn(r, requests)
    /\ r.pc = "resolve"
    /\ LET req == [state |-> r.state, code |-> r.code]
           h == CompleteHandler(options, strategies, req, session,
                                TRUE, r.profile[1], resolverOk)
       IN  CompleteAnswered(Others(requests, r), r, h, TRUE)
    /\ UNCHANGED <<options, phase, strategies, discovery, client, issued>>

\* GET /logout or GET /logout/return (request r, the others being rs) is
\* answered
LogoutAnswered(rs, r) ==
    LET h == HandlerOf(r)
        res == IF r.rejected THEN Fault ELSE h.res
    IN  /\ inflight' = MsgOf(res)
        /\ flow' = IF r.endpoint = "/logout" THEN Flow("logout", r.redirect, EmptyUrl)
                   ELSE r.flow
        /\ landed' = <<>>
        /\ last' = [NoLast EXCEPT !.endpoint = r.endpoint,
                                   !.follow = r.follow, !.redirect = r.redirect,
                                   !.sessionBefore = r.user,
                                   !.login = r.login,
                                   !.touched = r.touched,
                                   !.tokenSet = IF r.endpoint = "/logout"
                                                THEN h.tokenSet ELSE 0,
                                   !.destroy = r.destroys,
                                   !.trace = h.trace,
                                   !.dest = h.dest, !.res = res]
        /\ requests' = Answered(rs)

\* a Logout request arrives: the handler reads req.user and, when it calls
\* destroyMagdaSession, awaits it; when it does not it redirects at once
LogoutArrives(r) ==
    IF HandlerOf(r).destroy > 0
    THEN /\ requests' = requests (+) SetToBag({r})
         /\ inflight' = IF r.follow THEN NoMsg ELSE inflight
         /\ flow' = IF r.follow THEN NoFlow ELSE flow
         /\ landed' = <<>>
         /\ last' = NoLast
    ELSE LogoutAnswered(requests, r)

\* GET /logout (the legacy revision has no such route)
Logout(rp) ==
    /\ phase = "serving"
    /\ options.build = "current"
    /\ Arrives
    /\ LogoutArrives(Awaiting("/logout", rp, EmptyUrl, 0, FALSE, FALSE, NoFlow,
                              session, loginToken, "destroy"))
    /\ UNCHANGED <<options, phase, strategies, discovery, client, session,
                   loginToken, issued>>

\* the provider ends its own session and sends the browser to the
\* post-logout callback it was given
ProviderEndSession ==
    /\ inflight.to = "end_session"
    /\ inflight' = UrlMsg(inflight.url)
    /\ landed' = <<>>
    /\ last' = NoLast
    /\ UNCHANGED <<options, phase, strategies, discovery, client, session,
                   loginToken, issued, flow, requests>>

\* the value of req.query.redirect of a request for `url`
QueryRedirect(url) ==
    IF url.redirect = <<>> THEN AbsentParam ELSE StringParam(url.redirect[1])

\* GET /logout/return, either the browser following the provider's redirect
\* to the post-logout callback or a request made up by the user
LogoutReturn(rp, follow) ==
    /\ phase = "serving"
    /\ options.build = "current"
    /\ Arrives
    /\ follow => /\ inflight.to = "url"
                 /\ Route(inflight.url, options.authPluginConfig.key) = "/logout/return"
                 /\ rp = QueryRedirect(inflight.url)
    /\ LogoutArrives(Awaiting("/logout/return", rp, EmptyUrl, 0, follow, FALSE,
                              IF follow THEN flow ELSE NoFlow,
                              session, loginToken, "destroy"))
    /\ UNCHANGED <<options, phase, strategies, discovery, client, session,
                   loginToken, issued>>

\* destroyMagdaSession of request r settles: the session of the browser is
\* gone
SessionDestroyed(r) ==
    /\ BagIn(r, requests)
    /\ r.pc = "destroy"
    /\ LET d == destroyMagdaSession(session)
       IN  /\ session' = d.session
           /\ requests' = Touched(Others(requests, r), d.session # session)
                              (+) SetToBag({[r EXCEPT !.pc = "redirect",
                                                      !.destroys = @ + 1,
                                                      !.rejected = ~d.ok,
                                                      !.touched = FALSE]})
    /\ loginToken' = 0
    /\ landed' = <<>>
    /\ last' = NoLast
    /\ UNCHANGED <<options, phase, strategies, discovery, client, issued, inflight,
                   flow>>

\* the handler of request r goes on after the await and redirects
Redirected(r) ==
    /\ BagIn(r, requests)
    /\ r.pc = "redirect"
    /\ LogoutAnswered(Others(requests, r), r)
    /\ UNCHANGED <<options, phase, strategies, discovery, client, session,
                   loginToken, issued>>

\* the browser follows a redirect to a page that is not the plugin's
Land ==
    /\ inflight.to = "url"
    /\ Route(inflight.url, options.authPluginConfig.key) = "none"
    /\ landed' = <<[url |-> inflight.url, flow |-> flow]>>
    /\ flow' = NoFlow
    /\ inflight' = NoMsg
    /\ last' = NoLast
    /\ UNCHANGED <<options, phase, strategies, discovery, client, session,
                   loginToken, issued, requests>>

\* a login through another plugin of the gateway: a session whose provider
\* marker has no token set
OtherPluginSession ==
    <<[sub |-> "u1",
       authPlugin |-> <<[key |-> "internal", tokenSet |-> 0, logoutUrl |-> <<>>]>>]>>

OtherPluginLogin ==
    /\ phase = "serving"
    /\ Arrives
    /\ session' = OtherPluginSession
    /\ loginToken' = 0
    /\ landed' = <<>>
    /\ last' = [NoLast EXCEPT !.endpoint = "other",
                               !.sessionBefore = session,
                               !.login = loginToken]
    /\ requests' = Answered(Touched(requests, session # OtherPluginSession))
    /\ UNCHANGED <<options, phase, strategies, discovery, client, issued, inflight,
                   flow>>

\* the requests of one browser: a request arrives at any time, also while
\* the handlers of others are in an await, and the handlers that await go
\* on in any order
Next ==
    \/ createAuthPluginRouter
    \/ \E discovered \in BOOLEAN : Discovered(discovered)
    \/ \E rp \in RedirectParams : Initiate(rp)
    \/ ProviderAuthorize
    \/ \E st \in States, follow \in BOOLEAN : Complete(st, follow)
    \/ \E r \in UnderWay, exch \in BOOLEAN, profile \in Profiles :
            Exchanged(r, exch, profile)
    \/ \E r \in UnderWay, resolverOk \in BOOLEAN : Resolved(r, resolverOk)
    \/ \E rp \in LogoutRedirectParams : Logout(rp)
    \/ ProviderEndSession
    \/ \E rp \in LogoutRedirectParams, follow \in BOOLEAN : LogoutReturn(rp, follow)
    \/ \E r \in UnderWay : SessionDestroyed(r)
    \/ \E r \in UnderWay : Redirected(r)
    \/ Land
    \/ OtherPluginLogin

Spec == Init /\ [][Next]_vars

-----------------------------------------------------------------------------
(* Claims *)

\* C1: a Complete attempt (GET /return) whose provider claims have an absent
\* or empty email never calls the user/token resolver, never establishes a
\* session, ends with the redirect to the error destination and leaves the
\* browser's session as it was: the session it came with, unless another
\* request of the browser has changed it while this one was handled.
C1_MissingEmailNoSession ==
    (/\ last.endpoint = "/return"
     /\ last.email \in {"absent", "empty"}) =>
        /\ last.resolver = "none"
        /\ ~last.establish
        /\ ~last.touched => session = last.sessionBefore
        /\ last.res.kind = "redirect"
        /\ last.res.result = "failure"

\* a code exchange that succeeded with claims whose email is the empty string
C1_Witness ==
    /\ last.endpoint = "/return"
    /\ last.exchange = "ok"
    /\ last.email = "empty"
    /\ last.res.result = "failure"

\* C2: a Complete attempt in which the code exchange, the email check or the
\* user resolution fails answers with a redirect to the error destination
\* made from the state parameter of that request, is no unhandled fault and
\* leaves the session as it was before the request: the session the request
\* came with, unless another request of the browser has changed it while
\* this one was handled.
C2_FailureRedirectsNoPartialSession ==
    (/\ last.endpoint = "/return"
     /\ \/ last.exchange = "fail"
        \/ last.email \in {"absent", "empty"}
        \/ last.resolver = "fail") =>
        /\ last.res.kind = "redirect"
        /\ last.res.result = "failure"
        /\ last.res.url = last.state
        /\ ~last.establish
        /\ ~last.touched => session = last.sessionBefore

\* the resolver failed for a browser that already had a session
C2_Witness ==
    /\ last.endpoint = "/return"
    /\ last.resolver = "fail"
    /\ last.sessionBefore # <<>>
    /\ last.res.result = "failure"

\* C3: when Initiate is followed by a successful Complete to which the
\* provider echoed the state unmodified, Complete redirects to the
\* destination Initiate embedded in the state: the `redirect` parameter
\* resolved against the external URL, or the resolved default when the
\* parameter is not a non-empty string.
C3_LoginRoundTrip ==
    (/\ last.endpoint = "/return"
     /\ last.echoed
     /\ last.establish
     /\ flow.kind = "login") =>
        LET rp == flow.redirect
            chosen == IF rp.kind = "string" /\ rp.val # EmptyUrl
                      THEN rp.val
                      ELSE options.authPluginRedirectUrl
            expected == IF chosen.host # ""
                        THEN chosen
                        ELSE Url(ExternalHost, chosen.path, chosen.redirect)
        IN  /\ last.res.kind = "redirect"
            /\ last.res.result = "success"
            /\ last.res.url = flow.state
            /\ last.res.url = expected

\* a login started with redirect=/dashboard that completed
C3_Witness ==
    /\ last.endpoint = "/return"
    /\ last.echoed
    /\ last.establish
    /\ flow.kind = "login"
    /\ flow.redirect = StringParam(Url("", <<"dashboard">>, <<>>))
    /\ last.res.url = Url(ExternalHost, <<"dashboard">>, <<>>)

\* C4 (as stated): at every entry point that computes a destination
\* (Initiate, Logout-initiate in both branches, Logout-return) the
\* destination is the `redirect` parameter resolved against the external URL
\* when it is a non-empty string and the resolved default otherwise, never an
\* unresolved URL.
C4_AsStated ==
    (last.endpoint \in {"/", "/logout", "/logout/return"}) =>
        LET rp == last.redirect
            chosen == IF rp.kind = "string" /\ rp.val # EmptyUrl
                      THEN rp.val
                      ELSE options.authPluginRedirectUrl
            resolved == IF chosen.host # ""
                        THEN chosen
                        ELSE Url(ExternalHost, chosen.path, chosen.redirect)
        IN  last.dest = resolved

\* C4 (amended): every entry point chooses the `redirect` parameter when it
\* is a non-empty string and the configured default otherwise.  Initiate,
\* the direct branch of Logout-initiate and Logout-return resolve the choice
\* against the external URL; the provider branch of Logout-initiate leaves
\* it unresolved and nests it as the `redirect` parameter of the post-logout
\* callback, which is resolved.  Every URL handed to a browser redirect is
\* resolved.
C4_DestinationRule ==
    (last.endpoint \in {"/", "/logout", "/logout/return"}) =>
        LET rp == last.redirect
            chosen == IF rp.kind = "string" /\ rp.val # EmptyUrl
                      THEN rp.val
                      ELSE options.authPluginRedirectUrl
            resolved == IF chosen.host # ""
                        THEN chosen
                        ELSE Url(ExternalHost, chosen.path, chosen.redirect)
        IN  IF last.endpoint = "/logout" /\ last.res.kind = "end_session"
            THEN /\ last.dest = chosen
                 /\ last.res.url.redirect = <<chosen>>
                 /\ last.res.url.host = ExternalHost
            ELSE IF last.endpoint = "/"
            THEN /\ last.dest = resolved
                 /\ last.res.kind = "authorization"
                 /\ last.res.state = resolved
                 /\ last.res.url.host = ExternalHost
            ELSE /\ last.dest = resolved
                 /\ last.res.kind = "redirect"
                 /\ last.res.url = resolved

\* the provider branch of Logout-initiate with redirect=/dashboard
C4_Witness ==
    /\ last.endpoint = "/logout"
    /\ last.res.kind = "end_session"
    /\ last.redirect = StringParam(Url("", <<"dashboard">>, <<>>))
    /\ last.dest = Url("", <<"dashboard">>, <<>>)

\* C5: every logout flow, through the direct branch or through the provider
\* and the post-logout callback, ends with the browser on the `redirect`
\* parameter of the Logout-initiate request in absolute form, or on the
\* resolved default when the parameter is not a non-empty string.
C5_LogoutEndToEnd ==
        (landed # <<>> /\ landed[1].flow.kind = "logout") =>
            LET rp == landed[1].flow.redirect
                chosen == IF rp.kind = "string" /\ rp.val # EmptyUrl
                          THEN rp.val
                          ELSE options.authPluginRedirectUrl
                resolved == IF chosen.host # ""
                            THEN chosen
                            ELSE Url(ExternalHost, chosen.path, chosen.redirect)
            IN  landed[1].url = resolved

\* C6: Logout-initiate destroys the session before it redirects, in both
\* branches, and no session of that browser exists once it has responded
\* (but one that a login of the browser has established since the destroy).
C6_DestroyBeforeRedirect ==
    (last.endpoint = "/logout") =>
        /\ last.destroy = 1
        /\ \E i, j \in DOMAIN last.trace :
              /\ i < j
              /\ last.trace[i] = "destroy"
              /\ last.trace[j] = "redirect"
              /\ \A k \in 1..i : last.trace[k] # "redirect"
        /\ last.res.kind \in {"redirect", "end_session"}
        /\ ~last.touched => session = <<>>

\* a logout that took the provider branch, the provider not yet visited
C6_Witness ==
    /\ last.endpoint = "/logout"
    /\ last.sessionBefore # <<>>
    /\ last.res.kind = "end_session"
    /\ inflight.to = "end_session"
    /\ session = <<>>

\* C7: a Logout-initiate call made without a session is no error, leaves
\* the session absent (no other request establishing one meanwhile) and
\* answers with the direct redirect to the post-logout destination; the
\* response is a function of the `redirect` parameter alone, so that the same
\* request made again gets the same response and leaves the same (absent)
\* session.
C7_LogoutIdempotent ==
    (last.endpoint = "/logout" /\ last.sessionBefore = <<>>) =>
        LET rp == last.redirect
            chosen == IF rp.kind = "string" /\ rp.val # EmptyUrl
                      THEN rp.val
                      ELSE options.authPluginRedirectUrl
            resolved == IF chosen.host # ""
                        THEN chosen
                        ELSE Url(ExternalHost, chosen.path, chosen.redirect)
        IN  /\ last.res.kind = "redirect"
            /\ last.res.url = resolved
            /\ last.res.result = "none"
            /\ inflight = UrlMsg(resolved)
            /\ last.destroy = 1
            /\ ~last.touched => session = <<>>

\* a logout without a session, answered with the direct redirect
C7_Witness ==
    /\ last.endpoint = "/logout"
    /\ last.sessionBefore = <<>>
    /\ last.res.kind = "redirect"
    /\ last.redirect = StringParam(Url("", <<"dashboard">>, <<>>))

\* C8: Logout-initiate redirects to the provider's end-session URL exactly
\* when the session on entry carried a provider token set; a session without
\* a token set gets the direct redirect a request without a session gets, and
\* nothing is sent to the provider.
C8_ProviderBranchIffTokenSet ==
    (last.endpoint = "/logout") =>
        LET user == last.sessionBefore
            hasTokenSet == /\ user # <<>>
                           /\ user[1].authPlugin # <<>>
                           /\ user[1].authPlugin[1].tokenSet # 0
            rp == last.redirect
            chosen == IF rp.kind = "string" /\ rp.val # EmptyUrl
                      THEN rp.val
                      ELSE options.authPluginRedirectUrl
            resolved == IF chosen.host # ""
                        THEN chosen
                        ELSE Url(ExternalHost, chosen.path, chosen.redirect)
        IN  /\ (last.res.kind = "end_session") <=> hasTokenSet
            /\ hasTokenSet => last.res.hint = user[1].authPlugin[1].tokenSet
            /\ ~hasTokenSet =>
                  /\ last.res = Res("redirect", resolved, "none", EmptyUrl, 0)
                  /\ inflight.to # "end_session"

\* a logout of a session that another plugin established, without token set
C8_Witness ==
    /\ last.endpoint = "/logout"
    /\ last.sessionBefore = OtherPluginSession
    /\ last.res.kind = "redirect"

\* C9: the session record a successful Complete produces carries a provider
\* marker with the plugin key and the token set of that code exchange, and
\* the marker has a logout URL exactly when explicitLogout is set.
C9_ProviderMarker ==
    (/\ last.endpoint = "/return"
     /\ last.establish) =>
        /\ session # <<>>
        /\ session[1].authPlugin # <<>>
        /\ LET marker == session[1].authPlugin[1]
           IN  /\ marker.key = options.authPluginConfig.key
               /\ last.tokenSet # 0
               /\ marker.tokenSet = last.tokenSet
               /\ (marker.logoutUrl # <<>>) <=> options.authPluginConfig.explicitLogout

\* a login completed under explicitLogout = false
C9_Witness ==
    /\ last.endpoint = "/return"
    /\ last.establish
    /\ ~options.authPluginConfig.explicitLogout
    /\ session # <<>>

\* C10: once the router is built exactly one strategy is registered, under
\* STRATEGY_NAME, and both endpoints that call the authenticator (GET / and
\* GET /return) authenticate with that registered name.
C10_OneStrategyOneName ==
    /\ (phase = "serving") => strategies = {STRATEGY_NAME}
    /\ (last.endpoint \in {"/", "/return"}) =>
            /\ last.strategy = STRATEGY_NAME
            /\ last.strategy \in strategies

\* C11: when the client id, the client secret or the issuer is missing or
\* empty, the construction of the router fails before any discovery is
\* attempted: the router never serves, no strategy is registered, no client
\* is built and no endpoint has ever handled a request.
C11_ConfigurationErrorFatal ==
    (options.clientId = "" \/ options.clientSecret = "" \/ options.issuer = "") =>
        /\ phase # "serving"
        /\ discovery = <<>>
        /\ strategies = {}
        /\ client = <<>>
        /\ last = NoLast
        /\ requests = EmptyBag
        /\ session = <<>>
        /\ inflight = NoMsg

\* a construction that has failed on an empty client secret alone
C11_Witness ==
    /\ phase = "failed"
    /\ options.clientId # ""
    /\ options.issuer # ""
    /\ options.clientSecret = ""
    /\ discovery = <<>>

\* C12: discovery runs once and before any request: a serving router has
\* discovered the provider exactly once and has its client, no discovery
\* happens more than once, a request has been handled only by a serving
\* router, a failed construction has no strategy and has handled nothing, and
\* no step of a serving router discovers again or changes the client.
C12_DiscoveryOnceBeforeRequests ==
    /\ [](/\ Len(discovery) <= 1
          /\ phase = "serving" => (Len(discovery) = 1 /\ client # <<>>)
          /\ last # NoLast => phase = "serving"
          /\ phase = "failed" => (strategies = {} /\ client = <<>> /\ last = NoLast))
    /\ [][phase = "serving" =>
            (discovery' = discovery /\ client' = client /\ phase' = phase)]_vars

\* a request handled by a router whose single discovery succeeded
C12_Witness ==
    /\ phase = "serving"
    /\ Len(discovery) = 1
    /\ last.endpoint = "/return"
    /\ last.establish

\* C13: every outbound request has the configured timeout when one is
\* configured and 10000 ms otherwise: each discovery request, and each
\* request of the client whatever timeout its http options arrive with.
C13_TimeoutConfigurationDriven ==
    LET configured == IF options.timeout # <<>> THEN options.timeout[1] ELSE 10000
    IN  /\ \A i \in 1..Len(discovery) : discovery[i].timeout = configured
        /\ client # <<>> =>
               \A t \in RequestTimeouts : client[1].http_options[t].timeout = configured

\* C14: the clock tolerance applied when the tokens of a code exchange are
\* validated is the configured maxClockSkew whenever one is configured, 0
\* included, and 120 seconds only when none is configured.
C14_ClockToleranceConfigured ==
    (last.endpoint = "/return" /\ last.clockTolerance # <<>>) =>
        last.clockTolerance[1] =
            IF options.maxClockSkew # <<>> THEN options.maxClockSkew[1] ELSE 120

\* a code exchange that succeeded under a configured clock skew of 0
C14_Witness ==
    /\ last.endpoint = "/return"
    /\ last.exchange = "ok"
    /\ options.maxClockSkew = <<0>>
    /\ last.clockTolerance = <<0>>

\* C15: the client's redirect URI is
\* <externalUrl>/auth/login/plugin/<pluginKey>/return for the configured
\* plugin key, and it is the redirect URI of every authorization request
\* of Initiate and of every code exchange of Complete.
C15_RedirectUriFixed ==
    LET uri == Url(options.externalUrl.host,
                   <<"auth", "login", "plugin", options.authPluginConfig.key, "return">>,
                   <<>>)
    IN  /\ client # <<>> => client[1].redirect_uris = uri
        /\ last.redirectUri # <<>> => last.redirectUri[1] = uri

\* C16: the URLs by which the plugin refers to its own logout endpoints lie
\* under /auth/login/plugin/<key>: the post-logout callback given to the
\* provider is <externalUrl>/auth/login/plugin/<key>/logout/return with the
\* nested redirect parameter, and the logout URL of the provider marker of
\* a session of this plugin is the one of its Logout-initiate endpoint.
C16_LogoutUrlsUnderMountPath ==
    LET key == options.authPluginConfig.key
        mount == <<"auth", "login", "plugin", key>>
    IN  /\ (last.endpoint = "/logout" /\ last.res.kind = "end_session") =>
               /\ last.res.url.host = options.externalUrl.host
               /\ last.res.url.path = mount \o <<"logout", "return">>
               /\ last.res.url.redirect # <<>>
        /\ \A u \in {session[i] : i \in 1..Len(session)} :
               \A m \in {u.authPlugin[i] : i \in 1..Len(u.authPlugin)} :
                   (m.key = key /\ m.logoutUrl # <<>>) =>
                       m.logoutUrl[1].path = mount \o <<"logout">>

\* C17: Initiate always redirects to the authorization endpoint, the scope
\* it sends is the configured scope when one is configured and
\* `openid profile email` otherwise, and it is the scope the strategy was
\* constructed with.
C17_ConfiguredScopeSent ==
    (last.endpoint = "/") =>
        /\ last.res.kind = "authorization"
        /\ last.scope =
               <<IF options.scope # <<>> THEN options.scope[1]
                 ELSE <<"openid", "profile", "email">> >>
        /\ last.scope = StrategyParams(options).scope

\* C18: Logout-return destroys the session exactly when one is present on
\* entry, never fails, always redirects to the final destination (the
\* `redirect` parameter when it is a non-empty string, the configured
\* default otherwise, resolved against the external URL), and leaves the
\* browser without a session (but one that a login of the browser has
\* established since the destroy).
C18_LogoutReturnDefensiveDestroy ==
    (last.endpoint = "/logout/return") =>
        LET rp == last.redirect
            chosen == IF rp.kind = "string" /\ rp.val # EmptyUrl
                      THEN rp.val
                      ELSE options.authPluginRedirectUrl
            resolved == IF chosen.host # ""
                        THEN chosen
                        ELSE Url(ExternalHost, chosen.path, chosen.redirect)
        IN  /\ last.destroy = (IF last.sessionBefore # <<>> THEN 1 ELSE 0)
            /\ last.res.kind = "redirect"
            /\ last.res.result # "failure"
            /\ last.res.url = resolved
            /\ last.trace[Len(last.trace)] = "redirect"
            /\ ~last.touched => session = <<>>

\* Logout-return reached with the session of a login of this plugin
C18_Witness ==
    /\ last.endpoint = "/logout/return"
    /\ TokenSetOf(last.sessionBefore) # 0
    /\ last.destroy = 1
    /\ session = <<>>

\* C20: the token hint Logout-initiate passes to the provider's end-session
\* URL is the token set of the code exchange of the login that established
\* the session the request came with, never another one, whatever login
\* completes while the request is handled.
C20_TokenHintOfLogin ==
    (last.endpoint = "/logout" /\ last.res.kind = "end_session") =>
        /\ last.login # 0
        /\ last.res.hint = last.login
        /\ inflight.hint = last.login

\* Logout-initiate answered with the token set of the first login as the
\* hint, a second login having completed since it destroyed the session
C20_Witness ==
    /\ last.endpoint = "/logout"
    /\ last.res.kind = "end_session"
    /\ last.login = 1
    /\ last.res.hint = 1
    /\ last.touched
    /\ TokenSetOf(session) = 2

\* C21: Logout-initiate reads the token set of the request's session before
\* it destroys the session, and chooses its branch on the value read alone:
\* a request that came with a token set goes to the provider with that token
\* set although the session is gone when the branch is taken.
C21_TokenSetReadBeforeDestroy ==
    (last.endpoint = "/logout") =>
        LET user == last.sessionBefore
            carried == IF user # <<>> /\ user[1].authPlugin # <<>>
                       THEN user[1].authPlugin[1].tokenSet
                       ELSE 0
        IN  /\ \E i, j \in DOMAIN last.trace :
                  /\ i < j
                  /\ last.trace[i] = "read"
                  /\ last.trace[j] = "destroy"
                  /\ \A k \in 1..i : last.trace[k] # "destroy"
            /\ last.tokenSet = carried
            /\ (last.res.kind = "end_session") <=> (last.tokenSet # 0)
            /\ (last.res.kind = "redirect") <=> (last.tokenSet = 0)
            /\ carried # 0 =>
                  /\ last.res.hint = carried
                  /\ last.destroy = 1
                  /\ ~last.touched => session = <<>>

\* a request that came with the token set of a login: the session is
\* destroyed and the provider branch is taken
C21_Witness ==
    /\ last.endpoint = "/logout"
    /\ last.tokenSet # 0
    /\ last.trace = <<"read", "destroy", "redirect">>
    /\ session = <<>>
    /\ last.res.kind = "end_session"
    /\ last.res.hint = last.tokenSet

\* C22: whatever the interleaving of Logout-initiate and Logout-return
\* requests of one session, no request ends in an error, no request calls
\* destroyMagdaSession more than once, and the session is absent once every
\* request has been answered (no login having completed since the destroy
\* of the last one answered).
C22_ConcurrentLogoutSafe ==
    /\ \A r \in BagToSet(requests) :
           /\ r.destroys <= 1
           /\ ~r.rejected
    /\ (last.endpoint \in {"/logout", "/logout/return"}) =>
           /\ last.destroy <= 1
           /\ last.res.kind \in {"redirect", "end_session"}
           /\ (requests = EmptyBag /\ ~last.touched) => session = <<>>

\* a Logout-initiate and a Logout-return that both got the session of a
\* login before either destroyed it: both have destroyed it, the first is
\* answered and the second is about to redirect
C22_Witness ==
    /\ last.endpoint = "/logout"
    /\ TokenSetOf(last.sessionBefore) # 0
    /\ last.destroy = 1
    /\ last.res.kind = "end_session"
    /\ \E r \in BagToSet(requests) :
          /\ r.endpoint = "/logout/return"
          /\ r.user = last.sessionBefore
          /\ r.destroys = 1
          /\ r.pc = "redirect"
    /\ session = <<>>

=============================================================================
